---- MODULE Spec2Model ----
(***************************************************************************)
(* A model of the random_grouping crate (src/src/random_grouping.rs,       *)
(* src/src/sized_iter.rs, src/src/size_rounding.rs, src/src/staff.rs).     *)
(*                                                                         *)
(* Six specifications share the module:                                    *)
(*   SpecSizes : the pure size resolver ratios_to_sizes over bounded       *)
(*               ratio vectors and sample lengths;                         *)
(*   Spec      : one RandomGrouping session receiving with_stable,         *)
(*               with_rounding and one of the four divide_* calls;         *)
(*   SpecSeq   : a session and a twin session built by the same            *)
(*               constructor call, receiving the same sequence of calls;   *)
(*   SpecWalk  : one divide_by_size call taken in steps: its prologue,     *)
(*               each iteration of its loop over the table, its epilogue;  *)
(*   SpecIter  : a SizedIter built over an input iterator and read with    *)
(*               next() to its end;                                        *)
(*   SpecSum   : one by-size call with sizes up to the largest usize, in a *)
(*               build with or without overflow checks.                    *)
(*                                                                         *)
(* f64 values are modelled as binary floating point numbers with           *)
(* MantissaDigits significant bits (53 in the program) on a carrier of     *)
(* multiples of 2^-FracBits, rounded to nearest, ties to even.  The sums    *)
(* of sizes are taken in usize of UsizeBits bits (64 in the program).  An   *)
(* input element is identified with its position in the input.             *)
(***************************************************************************)
EXTENDS Integers, Sequences, FiniteSets, TLC

VARIABLES
    stable,     \* RandomGrouping::stable
    rounding,   \* RandomGrouping::rounding
    rng,        \* RandomGrouping::rng, the state of the generator behind the Staff
    ctor,       \* the constructor call that built the session (and its twin)
    call,       \* the last divide_* call: its name, its arguments, the state before it
    results,    \* what the last divide_* call returned, or the panic it ended with
    twin,       \* rng and results of the twin session, which receives the same calls
    ncalls,     \* number of divide_* calls made so far
    loop,       \* SpecWalk: the locals of the divide_by_size call in progress
    sized,      \* SpecIter: a SizedIter, the iterator it was built over, what it yielded
    overflow_checks, \* whether the build has overflow checks (debug) or wraps (release)
    len,        \* SpecSizes: the `len` argument of ratios_to_sizes
    ratios,     \* SpecSizes: the `ratios` argument of ratios_to_sizes
    sizes       \* SpecSizes: the value ratios_to_sizes returned

vars ==
    <<stable, rounding, rng, ctor, call, results, twin, ncalls, loop, sized,
      overflow_checks, len, ratios, sizes>>

----------------------------------------------------------------------------
(* Bounds of the model *)

\* significant bits of the scaled-down f64 (f64::MANTISSA_DIGITS is 53)
MantissaDigits == 5
\* longest ratio vector given to ratios_to_sizes in SpecSizes
MaxRatios == 4
\* ratios of SpecSizes are the f64 nearest to a/b with b <= MaxDen
MaxDen == 4
\* largest sample length of SpecSizes
MaxSamples == 36
\* largest input length of Spec; sizes vectors have at most MaxLen groups
MaxLen == 3
\* seeds are 0..MaxSeed
MaxSeed == 35
\* SpecSeq: seeds are 0..MaxSeqSeed, each session receives at most MaxCalls calls
MaxSeqSeed == 3
MaxCalls == 2
\* SpecIter: the iterators a SizedIter is built over yield at most MaxIterLen elements
MaxIterLen == 6
\* bits of the scaled-down usize (usize::BITS is 64)
UsizeBits == 3
\* SpecSum: the sizes vectors have at most MaxSumLen entries, each any usize
MaxSumLen == 2

----------------------------------------------------------------------------
(* f64 arithmetic *)

RECURSIVE Pow2(_)
Pow2(k) == IF k <= 0 THEN 1 ELSE 2 * Pow2(k - 1)

\* the carrier: a finite f64 v >= 0 is the integer v * 2^FracBits
FracBits == MantissaDigits + 3
Unit == Pow2(FracBits)

\* the least power of two u (at least one carrier step) with num/(den*u) < 2^MantissaDigits
RECURSIVE Ulp(_, _, _)
Ulp(num, den, u) ==
    IF num \div (den * u) < Pow2(MantissaDigits) THEN u ELSE Ulp(num, den, 2 * u)

\* IEEE 754 round to nearest, ties to even, of the exact value num/den
RoundNearestEven(num, den) ==
    LET u == Ulp(num, den, 1)
        q == num \div (den * u)
        r == num % (den * u)
        up == (2 * r > den * u) \/ (2 * r = den * u /\ q % 2 = 1)
    IN  (IF up THEN q + 1 ELSE q) * u

\* `len as f64`
usize_as_f64(n) == RoundNearestEven(n * Unit, 1)

\* f64 `*` and `+`
f64_mul(a, b) == RoundNearestEven(a * b, Unit)
f64_add(a, b) == RoundNearestEven(a + b, 1)

\* a rounding with ties to even where f64::round takes ties away from zero
f64_round_ties_even(v) ==
    LET q == v \div Unit
        r == v % Unit
    IN  IF 2 * r > Unit \/ (2 * r = Unit /\ q % 2 = 1) THEN q + 1 ELSE q

\* f64::floor() as usize, f64::round() as usize (round: ties away from zero)
f64_floor(v) == v \div Unit
f64_round(v) == (2 * v + Unit) \div (2 * Unit)

\* the f64 literal nearest to a/b
f64_lit(a, b) == RoundNearestEven(a * Unit, b)

\* a ratio as given by the caller: a finite f64 (val >= 0 or val < 0), NaN or an infinity
Num(v) == [kind |-> "num", val |-> v]
NaN == [kind |-> "nan", val |-> 0]
Infinity == [kind |-> "inf", val |-> 1]

----------------------------------------------------------------------------
(* usize arithmetic *)

\* usize::MAX + 1
UsizeMod == Pow2(UsizeBits)

\* `+` on usize where it wraps: a build without overflow checks
usize_wrapping_add(a, b) == (a + b) % UsizeMod

\* sizes.iter().sum::<usize>(): the fold of `+` from 0; whether an addition
\* overflowed, and the wrapped value
RECURSIVE usize_sum(_)
usize_sum(xs) ==
    IF xs = <<>> THEN [overflow |-> FALSE, val |-> 0]
    ELSE LET init == usize_sum(SubSeq(xs, 1, Len(xs) - 1))
         IN  [overflow |-> init.overflow \/ init.val + xs[Len(xs)] >= UsizeMod,
              val |-> usize_wrapping_add(init.val, xs[Len(xs)])]

----------------------------------------------------------------------------
(* simple_scan adaptors used by the crate, on sequences *)

\* trace2(0, |total, size| total + size): pairs (state before, state after)
RECURSIVE trace2(_, _)
trace2(total, xs) ==
    IF xs = <<>> THEN <<>>
    ELSE <<<<total, usize_wrapping_add(total, Head(xs))>>>>
         \o trace2(usize_wrapping_add(total, Head(xs)), Tail(xs))

\* diff(0, |c, p| c - p): each element minus the one before it
RECURSIVE diff(_, _)
diff(prev, xs) ==
    IF xs = <<>> THEN <<>>
    ELSE <<Head(xs) - prev>> \o diff(Head(xs), Tail(xs))

\* the sum of the sizes as a number: what sum() returns where it does not overflow
RECURSIVE SumSeq(_)
SumSeq(xs) == IF xs = <<>> THEN 0 ELSE Head(xs) + SumSeq(Tail(xs))

----------------------------------------------------------------------------
(* ratios_to_sizes *)

Floor == "Floor"
Tail_ == "Tail"
Each == "Each"
SizeRounding == {Floor, Tail_, Each}

\* a floor policy that rounds to nearest
floor_rounding(rs, n) == [i \in 1..Len(rs) |-> f64_round(f64_mul(rs[i], usize_as_f64(n)))]

\* fn floor: ratios.iter().map(|x| (x * len as f64).floor() as usize)
floor(rs, n) == [i \in 1..Len(rs) |-> f64_floor(f64_mul(rs[i], usize_as_f64(n)))]

\* a trace closure without the `.min(len)`
RECURSIVE tail_points_unclamped(_, _, _)
tail_points_unclamped(s, xs, n) ==
    IF xs = <<>> THEN <<>>
    ELSE <<s + Head(xs)>> \o tail_points_unclamped(s + Head(xs), Tail(xs), n)

\* fn tail, the trace closure |&s, x| (s + x).min(len)
RECURSIVE tail_points(_, _, _)
tail_points(s, xs, n) ==
    IF xs = <<>> THEN <<>>
    ELSE LET p == IF s + Head(xs) < n THEN s + Head(xs) ELSE n
         IN  <<p>> \o tail_points(p, Tail(xs), n)

\* a tail that takes the floor of each product where fn tail rounds it
tail_truncating(rs, n) ==
    LET szs == [i \in 1..Len(rs) |-> f64_floor(f64_mul(rs[i], usize_as_f64(n)))]
        points == tail_points(0, szs, n)
    IN  diff(0, points)

\* fn tail
tail(rs, n) ==
    LET szs == [i \in 1..Len(rs) |-> f64_round(f64_mul(rs[i], usize_as_f64(n)))]
        points == tail_points(0, szs, n)
    IN  diff(0, points)

\* fn each, the trace closure |&s, x| s + x on f64
RECURSIVE each_points(_, _)
each_points(s, xs) ==
    IF xs = <<>> THEN <<>>
    ELSE <<f64_add(s, Head(xs))>> \o each_points(f64_add(s, Head(xs)), Tail(xs))

\* fn each
each(rs, n) ==
    LET fpoints == each_points(0, rs)
        points == [i \in 1..Len(rs) |-> f64_round(f64_mul(fpoints[i], usize_as_f64(n)))]
    IN  diff(0, points)

\* fn ratios_to_sizes (ratios are the carrier values of finite, non-negative f64)
ratios_to_sizes(round, rs, n) ==
    CASE round = Floor -> floor(rs, n)
      [] round = Tail_ -> tail(rs, n)
      [] round = Each  -> each(rs, n)

\* ratios.iter().sum::<f64>()
RECURSIVE f64_sum(_)
f64_sum(rs) == IF rs = <<>> THEN 0 ELSE f64_add(f64_sum(SubSeq(rs, 1, Len(rs) - 1)), rs[Len(rs)])

\* f64::is_nan, `*x >= 0.0`, f64::is_finite
is_nan(x) == x.kind = "nan"
ge_zero(x) == x.kind # "nan" /\ x.val >= 0
is_finite(x) == x.kind = "num"

\* a check_ratio without the is_finite test
check_ratio_no_finite(x) == ~is_nan(x) /\ ge_zero(x)

\* fn check_ratio: !x.is_nan() && *x >= 0.0 && x.is_finite()
check_ratio(x) == ~is_nan(x) /\ ge_zero(x) /\ is_finite(x)

----------------------------------------------------------------------------
(* The random number generator (rand, rand_pcg) behind Staff<dyn RngCore>.  *)
(* Its state is the entropy it still holds and the number of draws made:    *)
(* a draw below a bound takes the next mixed-radix digit of the entropy, so *)
(* the output is a function of the state and every outcome of a sample or a *)
(* shuffle is produced by some state.                                       *)

\* Pcg32::seed_from_u64(seed)
seed_from_u64(seed) == [ent |-> seed, draws |-> 0]

\* one uniform draw in 0..ubound-1: the value and the generator afterwards
gen_index(r, ubound) ==
    [val |-> r.ent % ubound, rng |-> [ent |-> r.ent \div ubound, draws |-> r.draws + 1]]

Remove(xs, i) == SubSeq(xs, 1, i - 1) \o SubSeq(xs, i + 1, Len(xs))

\* rand::seq::index::sample: `amount` distinct indices of the pool, in random order
RECURSIVE sample_from(_, _, _)
sample_from(r, pool, amount) ==
    IF amount = 0 THEN [idxs |-> <<>>, rng |-> r]
    ELSE LET d == gen_index(r, Len(pool))
             rest == sample_from(d.rng, Remove(pool, d.val + 1), amount - 1)
         IN  [idxs |-> <<pool[d.val + 1]>> \o rest.idxs, rng |-> rest.rng]

\* a sampler that draws with replacement
RECURSIVE sample_with_replacement(_, _, _)
sample_with_replacement(r, length, amount) ==
    IF amount = 0 THEN [idxs |-> <<>>, rng |-> r]
    ELSE LET d == gen_index(r, length)
             rest == sample_with_replacement(d.rng, length, amount - 1)
         IN  [idxs |-> <<d.val>> \o rest.idxs, rng |-> rest.rng]

\* a sampler that makes one draw before it looks at the amount
sample_warmed_up(r, length, amount) ==
    sample_from(gen_index(r, length + 1).rng, [i \in 1..length |-> i - 1], amount)

\* sample(&mut *self.rng, length, amount).into_vec()
sample(r, length, amount) == sample_from(r, [i \in 1..length |-> i - 1], amount)

\* a swap that copies xs[j] over xs[i] and leaves xs[j]
Swap_overwriting(xs, i, j) == [xs EXCEPT ![i] = xs[j]]

Swap(xs, i, j) == [xs EXCEPT ![i] = xs[j], ![j] = xs[i]]

\* SliceRandom::shuffle: for i in (1..len).rev() { swap(i, gen_index(rng, i + 1)) }
RECURSIVE shuffle_from(_, _, _)
shuffle_from(r, xs, i) ==
    IF i < 1 THEN [seq |-> xs, rng |-> r]
    ELSE LET d == gen_index(r, i + 1)
         IN  shuffle_from(d.rng, Swap(xs, i + 1, d.val + 1), i - 1)

\* a shuffle that makes a draw for an empty sequence too
shuffle_drawing_for_empty(r, xs) ==
    IF xs = <<>> THEN [seq |-> xs, rng |-> gen_index(r, 1).rng]
    ELSE shuffle_from(r, xs, Len(xs) - 1)

shuffle(r, xs) == shuffle_from(r, xs, Len(xs) - 1)

----------------------------------------------------------------------------
(* Iterators and SizedIter *)

\* Option<T>
Some(n) == [some |-> TRUE, val |-> n]
None == [some |-> FALSE, val |-> 0]

\* an input iterator: the number of elements it yields (the elements are their
\* positions 0, 1, ...), the upper bound of its size_hint before it is read,
\* and the number of elements taken from it so far
Iter(n, upper) == [len |-> n, upper |-> upper, taken |-> 0]

\* struct SizedIter { src_iter, vec_iter }; the values that have these fields
IsSizedIter(x) == "vec_iter" \in DOMAIN x

\* Iterator::next of an input iterator (SizedIter::next, first branch:
\* self.src_iter.as_mut().unwrap().next())
src_next(iter) ==
    IF iter.taken < iter.len
    THEN [item |-> Some(iter.taken), iter |-> [iter EXCEPT !.taken = @ + 1]]
    ELSE [item |-> None, iter |-> iter]

\* vec::IntoIter::next (SizedIter::next, second branch)
vec_next(v) ==
    IF v.pos < Len(v.buf)
    THEN [item |-> Some(v.buf[v.pos + 1]), iter |-> [v EXCEPT !.pos = @ + 1]]
    ELSE [item |-> None, iter |-> v]

\* SizedIter::next; the iterator behind src_iter is an input iterator or, in
\* divide_by_ratio, another SizedIter
RECURSIVE SizedIter_next(_)
SizedIter_next(x) ==
    IF ~IsSizedIter(x) THEN src_next(x)
    ELSE IF x.src_iter.some
    THEN LET r == SizedIter_next(x.src_iter.val)
         IN  [item |-> r.item, iter |-> [x EXCEPT !.src_iter = Some(r.iter)]]
    ELSE LET r == vec_next(x.vec_iter.val)
         IN  [item |-> r.item, iter |-> [x EXCEPT !.vec_iter = Some(r.iter)]]

\* SizedIter::size_hint().1
RECURSIVE size_hint_upper(_)
size_hint_upper(x) ==
    IF ~IsSizedIter(x)
    THEN (IF x.upper.some THEN Some(x.upper.val - x.taken) ELSE None)
    ELSE IF x.src_iter.some THEN size_hint_upper(x.src_iter.val)
    ELSE Some(Len(x.vec_iter.val.buf) - x.vec_iter.val.pos)

\* iter.collect::<Vec<_>>(): the vector and the iterator as it is left
RECURSIVE collect(_)
collect(iter) ==
    LET r == SizedIter_next(iter)
    IN  IF ~r.item.some THEN [vec |-> <<>>, iter |-> r.iter]
        ELSE LET rest == collect(r.iter)
             IN  [vec |-> <<r.item.val>> \o rest.vec, iter |-> rest.iter]

\* a SizedIter::new that buffers whatever the size_hint
SizedIter_new_buffering(iter) ==
    LET c == collect(iter)
    IN  [src_iter |-> None, vec_iter |-> Some([buf |-> c.vec, pos |-> 0]),
         collected |-> Some(c.iter)]

\* SizedIter::new; `collected` is the borrowed iterator as collect left it
SizedIter_new(iter) ==
    IF size_hint_upper(iter).some
    THEN [src_iter |-> Some(iter), vec_iter |-> None, collected |-> None]
    ELSE LET c == collect(iter)
         IN  [src_iter |-> None, vec_iter |-> Some([buf |-> c.vec, pos |-> 0]),
              collected |-> Some(c.iter)]

\* Iterator::nth(k) on a SizedIter: next() until k elements are skipped, the
\* following next() is the result
RECURSIVE nth(_, _)
nth(it, k) ==
    LET r == SizedIter_next(it)
    IN  IF k = 0 \/ ~r.item.some THEN r ELSE nth(r.iter, k - 1)

\* the number of elements an iterator has yielded
RECURSIVE Taken(_)
Taken(x) ==
    IF ~IsSizedIter(x) THEN x.taken
    ELSE IF x.src_iter.some THEN Taken(x.src_iter.val)
    ELSE x.vec_iter.val.pos

----------------------------------------------------------------------------
(* The divide operations.  Each returns the panic it ended with ("none"     *)
(* for a normal return), the groups returned and the generator afterwards.  *)

Return(gs, r) == [panic |-> "none", groups |-> gs, rng |-> r]
Panic(msg, r) == [panic |-> msg, groups |-> <<>>, rng |-> r]

\* sizes.iter().sum() panics ("attempt to add with overflow") where the build
\* has overflow checks and an addition overflows
sum_panics(szs) == overflow_checks /\ usize_sum(szs).overflow

\* the oversubscription checks: samples_len < sizes.iter().sum()
sizes_total_gt(samples_len, szs) == samples_len < usize_sum(szs).val

\* the bounds checks of idxs[group_range], for every group range lower..upper
ranges_in(ranges, idxs_len) ==
    \A g \in 1..Len(ranges) : ranges[g][1] <= ranges[g][2] /\ ranges[g][2] <= idxs_len

\* table.insert(group_item_idx, group_idx) for every index of every group range
RECURSIVE table_of(_, _, _)
table_of(idxs, ranges, group_idx) ==
    IF ranges = <<>> THEN << >>
    ELSE LET lower == Head(ranges)[1]
             upper == Head(ranges)[2]
             here == [k \in {idxs[j] : j \in lower + 1..upper} |-> group_idx]
         IN  table_of(idxs, Tail(ranges), group_idx + 1) @@ here

SetMin(S) == CHOOSE x \in S : \A y \in S : x <= y

\* a loop body that skips idx_progress elements, one more than the code
walk_step_skipping_one_more(table, idx, prev_idx, it, gs) ==
    LET group_idx == table[idx]
        idx_progress == idx - prev_idx
        got == nth(it, idx_progress)
    IN  IF ~got.item.some
        THEN [panic |-> "unwrap_none", groups |-> gs, iter |-> got.iter]
        ELSE [panic |-> "none", iter |-> got.iter,
              groups |-> [gs EXCEPT ![group_idx + 1] = Append(@, got.item.val)]]

\* the body of `for (idx, group_idx) in table`:
\* samples_iter.nth(idx_progress - 1).unwrap(), results[group_idx].push(sample)
walk_step(table, idx, prev_idx, it, gs) ==
    LET group_idx == table[idx]
        idx_progress == idx - prev_idx
        got == nth(it, idx_progress - 1)
    IN  IF ~got.item.some
        THEN [panic |-> "unwrap_none", groups |-> gs, iter |-> got.iter]
        ELSE [panic |-> "none", iter |-> got.iter,
              groups |-> [gs EXCEPT ![group_idx + 1] = Append(@, got.item.val)]]

\* for (idx, group_idx) in table { ... }: a BTreeMap iterates in ascending key order
RECURSIVE walk(_, _, _, _, _)
walk(table, todo, prev_idx, it, gs) ==
    IF todo = {} THEN [panic |-> "none", groups |-> gs, iter |-> it]
    ELSE LET idx == SetMin(todo)
             step == walk_step(table, idx, prev_idx, it, gs)
         IN  IF step.panic # "none" THEN step
             ELSE walk(table, todo \ {idx}, idx, step.iter, step.groups)

\* for group in results.iter_mut() { group.shuffle(&mut *self.rng) }
RECURSIVE shuffle_groups(_, _)
shuffle_groups(r, gs) ==
    IF gs = <<>> THEN [groups |-> <<>>, rng |-> r]
    ELSE LET first == shuffle(r, Head(gs))
             rest == shuffle_groups(first.rng, Tail(gs))
         IN  [groups |-> <<first.seq>> \o rest.groups, rng |-> rest.rng]

\* RandomGrouping::divide_by_size
divide_by_size(r, stab, samples, szs) ==
    LET samples_iter == SizedIter_new(samples)
        samples_len == size_hint_upper(samples_iter).val
        select_len == usize_sum(szs).val
    IN  IF sum_panics(szs) THEN Panic("add_overflow", r)
        ELSE IF sizes_total_gt(samples_len, szs) THEN Panic("sizes_total", r)
        ELSE LET drawn == sample(r, samples_len, select_len)
                 group_ranges == trace2(0, szs)
                 table == table_of(drawn.idxs, group_ranges, 0)
                 walked == walk(table, DOMAIN table, -1, samples_iter,
                                [i \in 1..Len(szs) |-> <<>>])
             IN  IF ~ranges_in(group_ranges, Len(drawn.idxs))
                 THEN Panic("slice_index", drawn.rng)
                 ELSE IF walked.panic # "none" THEN Panic(walked.panic, drawn.rng)
                 ELSE IF ~stab
                      THEN LET sh == shuffle_groups(drawn.rng, walked.groups)
                           IN  Return(sh.groups, sh.rng)
                      ELSE Return(walked.groups, drawn.rng)

\* a sort_if that never sorts
sort_if_never(flag, slice) == slice

\* fn sort_if
sort_if(flag, slice) == IF flag THEN SortSeq(slice, <) ELSE slice

\* a from_idxs that fills the result from its end
RECURSIVE from_idxs_reversed(_, _)
from_idxs_reversed(n, idxs) ==
    IF idxs = <<>> THEN <<>> ELSE Append(from_idxs_reversed(n, Tail(idxs)), Head(idxs))

\* fn from_idxs: the elements of the slice at the given indices
from_idxs(n, idxs) == idxs

\* RandomGrouping::divide_slice_by_size
divide_slice_by_size(r, stab, n, szs) ==
    IF sum_panics(szs) THEN Panic("add_overflow", r)
    ELSE IF sizes_total_gt(n, szs) THEN Panic("sizes_total", r)
    ELSE LET drawn == sample(r, n, usize_sum(szs).val)
             ranges == trace2(0, szs)
         IN  IF ~ranges_in(ranges, Len(drawn.idxs)) THEN Panic("slice_index", drawn.rng)
             ELSE Return([g \in 1..Len(szs) |->
                             from_idxs(n, sort_if(stab, SubSeq(drawn.idxs,
                                                               ranges[g][1] + 1,
                                                               ranges[g][2])))],
                         drawn.rng)

\* the carrier values of a ratio vector
Vals(rs) == [i \in 1..Len(rs) |-> rs[i].val]

\* the two checks that open divide_by_ratio and divide_slice_by_ratio
ratio_panic(rs) ==
    IF ~(\A i \in 1..Len(rs) : check_ratio(rs[i])) THEN "illegal_value"
    ELSE IF f64_sum(Vals(rs)) > Unit THEN "ratios_total"
    ELSE "none"

\* RandomGrouping::divide_by_ratio
divide_by_ratio(r, stab, round, samples, rs) ==
    IF ratio_panic(rs) # "none" THEN Panic(ratio_panic(rs), r)
    ELSE LET samples_iter == SizedIter_new(samples)
             samples_len == size_hint_upper(samples_iter).val
             szs == ratios_to_sizes(round, Vals(rs), samples_len)
         IN  divide_by_size(r, stab, samples_iter, szs)

\* RandomGrouping::divide_slice_by_ratio
divide_slice_by_ratio(r, stab, round, n, rs) ==
    IF ratio_panic(rs) # "none" THEN Panic(ratio_panic(rs), r)
    ELSE LET szs == ratios_to_sizes(round, Vals(rs), n)
         IN  divide_by_size(r, stab, Iter(n, Some(n)), szs)

----------------------------------------------------------------------------
(* SpecSizes: ratios_to_sizes applied to every valid ratio vector *)

\* the ratios a caller can write down: the f64 nearest to a/b
RatioValues == {f64_lit(a, b) : a \in 0..MaxDen, b \in 1..MaxDen} \cap 0..Unit

\* the checks of divide_by_ratio that precede ratios_to_sizes
ValidRatios(rs) == f64_sum(rs) <= Unit

InitSizes ==
    /\ rounding \in SizeRounding
    /\ len \in 0..MaxSamples
    /\ ratios = <<>>
    /\ sizes = ratios_to_sizes(rounding, <<>>, len)
    /\ stable = TRUE
    /\ rng = 0
    /\ ctor = 0
    /\ call = 0
    /\ results = 0
    /\ twin = 0
    /\ ncalls = 0
    /\ loop = 0
    /\ sized = 0
    /\ overflow_checks = FALSE

\* a caller resolves the ratio vector extended by one more ratio
ResolveSizes(x) ==
    /\ Len(ratios) < MaxRatios
    /\ ValidRatios(Append(ratios, x))
    /\ ratios' = Append(ratios, x)
    /\ sizes' = ratios_to_sizes(rounding, ratios', len)
    /\ UNCHANGED <<stable, rounding, rng, ctor, call, results, twin, ncalls, loop,
                   sized, overflow_checks, len>>

NextSizes == \E x \in RatioValues : ResolveSizes(x)

SpecSizes == InitSizes /\ [][NextSizes]_vars

----------------------------------------------------------------------------
(* Spec: the life of a session up to its first divide_* call: it is built,   *)
(* configured with with_stable and with_rounding, and called once            *)

Seeds == 0..MaxSeed

\* the inputs of the stream path: slices and collections (exact upper bound),
\* adaptors such as Filter (an upper bound above the count), and iterators
\* without an upper bound
Iters ==
    UNION {{Iter(n, Some(u)) : u \in n..MaxLen} \cup {Iter(n, None)} : n \in 0..MaxLen}

SizeVecs ==
    {szs \in UNION {[1..g -> 0..MaxLen + 1] : g \in 0..MaxLen} :
        SumSeq(szs) <= MaxLen + 1}

Half == f64_lit(1, 2)
RatioArgValues == {Num(0), Num(Half), Num(Unit), Num(0 - Half), NaN, Infinity}
RatioVecs ==
    {<<>>} \cup {<<x>> : x \in RatioArgValues}
           \cup {<<x, y>> : x \in RatioArgValues, y \in RatioArgValues}

NoCall ==
    [op |-> "none", samples |-> Iter(0, None), sizes |-> <<>>, ratios |-> <<>>,
     stable |-> TRUE, rounding |-> Floor, rng |-> seed_from_u64(0)]

\* no divide_by_size call in progress
NoLoop ==
    [pc |-> "idle", table |-> << >>, todo |-> {}, prev_idx |-> -1,
     samples_iter |-> SizedIter_new(Iter(0, None)), results |-> <<>>]

\* RandomGrouping::from_seed, with the fields of Default::default()
Init ==
    /\ \E seed \in Seeds :
          /\ ctor = [name |-> "from_seed", seed |-> seed]
          /\ rng = seed_from_u64(seed)
    /\ stable = TRUE
    /\ rounding = Floor
    /\ call = NoCall
    /\ results = [panic |-> "none", groups |-> <<>>]
    /\ twin = 0
    /\ ncalls = 0
    /\ loop = NoLoop
    /\ sized = 0
    /\ overflow_checks = FALSE
    /\ len = 0
    /\ ratios = <<>>
    /\ sizes = <<>>

\* RandomGrouping::with_stable
with_stable(value) ==
    /\ stable' = value
    /\ UNCHANGED <<rounding, rng, ctor, call, results, twin, ncalls, loop, sized,
                   overflow_checks, len, ratios, sizes>>

\* a with_rounding that builds the session anew, with the default stable flag
with_rounding_default_stable(value) ==
    /\ rounding' = value
    /\ stable' = TRUE
    /\ UNCHANGED <<rng, ctor, call, results, twin, ncalls, loop, sized,
                   overflow_checks, len, ratios, sizes>>

\* RandomGrouping::with_rounding
with_rounding(value) ==
    /\ rounding' = value
    /\ UNCHANGED <<stable, rng, ctor, call, results, twin, ncalls, loop, sized,
                   overflow_checks, len, ratios, sizes>>

\* the session after a divide_* call `op` that ended as `out`
Called(op, samples, szs, rs, out) ==
    /\ ncalls' = 1
    /\ call' = [op |-> op, samples |-> samples, sizes |-> szs, ratios |-> rs,
                stable |-> stable, rounding |-> rounding, rng |-> rng]
    /\ results' = [panic |-> out.panic, groups |-> out.groups]
    /\ rng' = out.rng
    /\ UNCHANGED <<stable, rounding, ctor, twin, loop, sized, overflow_checks,
                   len, ratios, sizes>>

DivideBySize ==
    /\ ncalls = 0
    /\ \E samples \in Iters, szs \in SizeVecs :
          Called("divide_by_size", samples, szs, <<>>,
                 divide_by_size(rng, stable, samples, szs))

DivideSliceBySize ==
    /\ ncalls = 0
    /\ \E n \in 0..MaxLen, szs \in SizeVecs :
          Called("divide_slice_by_size", Iter(n, Some(n)), szs, <<>>,
                 divide_slice_by_size(rng, stable, n, szs))

DivideByRatio ==
    /\ ncalls = 0
    /\ \E samples \in Iters, rs \in RatioVecs :
          Called("divide_by_ratio", samples, <<>>, rs,
                 divide_by_ratio(rng, stable, rounding, samples, rs))

DivideSliceByRatio ==
    /\ ncalls = 0
    /\ \E n \in 0..MaxLen, rs \in RatioVecs :
          Called("divide_slice_by_ratio", Iter(n, Some(n)), <<>>, rs,
                 divide_slice_by_ratio(rng, stable, rounding, n, rs))

Next ==
    \/ ncalls = 0 /\ \E value \in BOOLEAN : with_stable(value)
    \/ ncalls = 0 /\ \E value \in SizeRounding : with_rounding(value)
    \/ DivideBySize
    \/ DivideSliceBySize
    \/ DivideByRatio
    \/ DivideSliceByRatio

Spec == Init /\ [][Next]_vars

----------------------------------------------------------------------------
(* SpecSeq: two sessions built by the same constructor call with the same   *)
(* arguments receive the same sequence of with_* and divide_* calls         *)

SeqSeeds == 0..MaxSeqSeed

\* the generators a constructor can install in a session:
\* Default::default() (and new) and from_seed seed a Pcg32, auto_seed takes
\* the thread's generator
default_rng == {seed_from_u64(0)}
auto_seed == {seed_from_u64(s) : s \in SeqSeeds}
\* a from_seed that takes the thread's generator as auto_seed does
from_seed_volatile(seed) == auto_seed
from_seed(seed) == {seed_from_u64(seed)}
\* from_rng borrows the caller's generator, in the state the caller left it
from_rng(r) == {r}
CallerRngs == {seed_from_u64(MaxSeqSeed)}

Built(name, seed, rngs) ==
    /\ ctor = [name |-> name, seed |-> seed]
    /\ rng \in rngs
    /\ twin \in [rng : rngs, results : {[panic |-> "none", groups |-> <<>>]}]

InitSeq ==
    /\ \/ Built("new", 0, default_rng)
       \/ Built("default", 0, default_rng)
       \/ \E seed \in SeqSeeds : Built("from_seed", seed, from_seed(seed))
       \/ \E r \in CallerRngs : Built("from_rng", r.ent, from_rng(r))
       \/ Built("auto_seed", 0, auto_seed)
    /\ stable = TRUE
    /\ rounding = Floor
    /\ call = NoCall
    /\ results = [panic |-> "none", groups |-> <<>>]
    /\ ncalls = 0
    /\ loop = NoLoop
    /\ sized = 0
    /\ overflow_checks = FALSE
    /\ len = 0
    /\ ratios = <<>>
    /\ sizes = <<>>

SeqIters == {Iter(MaxLen, Some(MaxLen)), Iter(MaxLen, None)}
SeqSlices == {MaxLen}
SeqSizeVecs == {<<1>>, <<2, 1>>, <<MaxLen + 1>>}
SeqRatioVecs == {<<Num(Half), Num(Half)>>, <<NaN>>}

\* both sessions after the same divide_* call, which ended as `out` in the
\* session and as `out2` in its twin
CalledBoth(op, samples, szs, rs, out, out2) ==
    /\ ncalls' = ncalls + 1
    /\ call' = [op |-> op, samples |-> samples, sizes |-> szs, ratios |-> rs,
                stable |-> stable, rounding |-> rounding, rng |-> rng]
    /\ results' = [panic |-> out.panic, groups |-> out.groups]
    /\ rng' = out.rng
    /\ twin' = [rng |-> out2.rng, results |-> [panic |-> out2.panic, groups |-> out2.groups]]
    /\ UNCHANGED <<stable, rounding, ctor, loop, sized, overflow_checks, len,
                   ratios, sizes>>

SeqDivideBySize ==
    /\ ncalls < MaxCalls
    /\ \E samples \in SeqIters, szs \in SeqSizeVecs :
          CalledBoth("divide_by_size", samples, szs, <<>>,
                     divide_by_size(rng, stable, samples, szs),
                     divide_by_size(twin.rng, stable, samples, szs))

SeqDivideSliceBySize ==
    /\ ncalls < MaxCalls
    /\ \E n \in SeqSlices, szs \in SeqSizeVecs :
          CalledBoth("divide_slice_by_size", Iter(n, Some(n)), szs, <<>>,
                     divide_slice_by_size(rng, stable, n, szs),
                     divide_slice_by_size(twin.rng, stable, n, szs))

SeqDivideByRatio ==
    /\ ncalls < MaxCalls
    /\ \E samples \in SeqIters, rs \in SeqRatioVecs :
          CalledBoth("divide_by_ratio", samples, <<>>, rs,
                     divide_by_ratio(rng, stable, rounding, samples, rs),
                     divide_by_ratio(twin.rng, stable, rounding, samples, rs))

SeqDivideSliceByRatio ==
    /\ ncalls < MaxCalls
    /\ \E n \in SeqSlices, rs \in SeqRatioVecs :
          CalledBoth("divide_slice_by_ratio", Iter(n, Some(n)), <<>>, rs,
                     divide_slice_by_ratio(rng, stable, rounding, n, rs),
                     divide_slice_by_ratio(twin.rng, stable, rounding, n, rs))

NextSeq ==
    \/ ncalls < MaxCalls /\ \E value \in BOOLEAN : with_stable(value)
    \/ ncalls < MaxCalls /\ \E value \in SizeRounding : with_rounding(value)
    \/ SeqDivideBySize
    \/ SeqDivideSliceBySize
    \/ SeqDivideByRatio
    \/ SeqDivideSliceByRatio

SpecSeq == InitSeq /\ [][NextSeq]_vars

----------------------------------------------------------------------------
(* SpecWalk: a session makes one divide_by_size call, taken in steps.  The   *)
(* locals of the call are in `loop`: the table, its keys still to visit      *)
(* (the BTreeMap iterator), prev_idx, samples_iter and the results so far.   *)

\* divide_by_size up to its loop: SizedIter::new, the oversubscription check,
\* the sample, the table and the empty results
BeginDivideBySize ==
    /\ ncalls = 0
    /\ \E samples \in Iters, szs \in SizeVecs :
          LET samples_iter == SizedIter_new(samples)
              samples_len == size_hint_upper(samples_iter).val
              select_len == usize_sum(szs).val
              drawn == sample(rng, samples_len, select_len)
              group_ranges == trace2(0, szs)
              table == table_of(drawn.idxs, group_ranges, 0)
          IN  /\ call' = [op |-> "divide_by_size", samples |-> samples, sizes |-> szs,
                          ratios |-> <<>>, stable |-> stable, rounding |-> rounding,
                          rng |-> rng]
              /\ IF sum_panics(szs) \/ sizes_total_gt(samples_len, szs)
                 THEN /\ loop' = [NoLoop EXCEPT !.pc = "panic", !.samples_iter = samples_iter]
                      /\ results' = [panic |-> IF sum_panics(szs) THEN "add_overflow"
                                                ELSE "sizes_total",
                                      groups |-> <<>>]
                      /\ rng' = rng
                 ELSE IF ~ranges_in(group_ranges, Len(drawn.idxs))
                 THEN /\ loop' = [NoLoop EXCEPT !.pc = "panic", !.samples_iter = samples_iter]
                      /\ results' = [panic |-> "slice_index", groups |-> <<>>]
                      /\ rng' = drawn.rng
                 ELSE /\ loop' = [pc |-> "walk", table |-> table, todo |-> DOMAIN table,
                                  prev_idx |-> -1, samples_iter |-> samples_iter,
                                  results |-> [i \in 1..Len(szs) |-> <<>>]]
                      /\ rng' = drawn.rng
                      /\ UNCHANGED results
    /\ ncalls' = 1
    /\ UNCHANGED <<stable, rounding, ctor, twin, sized, overflow_checks, len,
                   ratios, sizes>>

\* one iteration of `for (idx, group_idx) in table`
WalkStep ==
    /\ loop.pc = "walk" /\ loop.todo # {}
    /\ LET idx == SetMin(loop.todo)
           step == walk_step(loop.table, idx, loop.prev_idx, loop.samples_iter,
                             loop.results)
       IN  IF step.panic # "none"
           THEN /\ loop' = [loop EXCEPT !.pc = "panic", !.samples_iter = step.iter]
                /\ results' = [panic |-> step.panic, groups |-> <<>>]
           ELSE /\ loop' = [loop EXCEPT !.todo = @ \ {idx}, !.prev_idx = idx,
                                        !.samples_iter = step.iter,
                                        !.results = step.groups]
                /\ UNCHANGED results
    /\ UNCHANGED <<stable, rounding, rng, ctor, call, twin, ncalls, sized,
                   overflow_checks, len, ratios, sizes>>

\* divide_by_size after its loop: the shuffle of an unstable session, the return
EndDivideBySize ==
    /\ loop.pc = "walk" /\ loop.todo = {}
    /\ LET sh == IF ~stable THEN shuffle_groups(rng, loop.results)
                 ELSE [groups |-> loop.results, rng |-> rng]
       IN  /\ results' = [panic |-> "none", groups |-> sh.groups]
           /\ rng' = sh.rng
    /\ loop' = [loop EXCEPT !.pc = "done"]
    /\ UNCHANGED <<stable, rounding, ctor, call, twin, ncalls, sized,
                   overflow_checks, len, ratios, sizes>>

NextWalk ==
    \/ ncalls = 0 /\ \E value \in BOOLEAN : with_stable(value)
    \/ ncalls = 0 /\ \E value \in SizeRounding : with_rounding(value)
    \/ BeginDivideBySize
    \/ WalkStep
    \/ EndDivideBySize

SpecWalk == Init /\ [][NextWalk]_vars

----------------------------------------------------------------------------
(* SpecIter: a SizedIter is built over an input iterator and next() is       *)
(* called on it until it returns None                                        *)

IterSources ==
    UNION {{Iter(n, Some(u)) : u \in n..MaxIterLen} \cup {Iter(n, None)} :
              n \in 0..MaxIterLen}

\* the state after SizedIter::new(&mut src)
InitIter ==
    /\ \E src \in IterSources :
          sized = [src |-> src, it |-> SizedIter_new(src), yielded |-> <<>>,
                   ended |-> FALSE]
    /\ stable = TRUE
    /\ rounding = Floor
    /\ rng = 0
    /\ ctor = 0
    /\ call = 0
    /\ results = 0
    /\ twin = 0
    /\ ncalls = 0
    /\ loop = 0
    /\ overflow_checks = FALSE
    /\ len = 0
    /\ ratios = <<>>
    /\ sizes = <<>>

\* one call of SizedIter::next
SizedIterNext ==
    /\ ~sized.ended
    /\ LET r == SizedIter_next(sized.it)
       IN  sized' = [sized EXCEPT !.it = r.iter,
                                  !.yielded = IF r.item.some THEN Append(@, r.item.val)
                                              ELSE @,
                                  !.ended = ~r.item.some]
    /\ UNCHANGED <<stable, rounding, rng, ctor, call, results, twin, ncalls, loop,
                   overflow_checks, len, ratios, sizes>>

NextIter == SizedIterNext

SpecIter == InitIter /\ [][NextIter]_vars

----------------------------------------------------------------------------
(* SpecSum: a by-size call whose sizes are any usize values, in a build     *)
(* with overflow checks (debug profile) or without (release profile)        *)

\* inputs whose length is known: slices and collections, and iterators without
\* an upper bound, which SizedIter buffers
SumIters == UNION {{Iter(n, Some(n)), Iter(n, None)} : n \in 0..MaxLen}

SumSizeVecs == UNION {[1..g -> 0..UsizeMod - 1] : g \in 0..MaxSumLen}

\* RandomGrouping::from_seed in either build
InitSum ==
    /\ \E seed \in SeqSeeds :
          /\ ctor = [name |-> "from_seed", seed |-> seed]
          /\ rng = seed_from_u64(seed)
    /\ stable = TRUE
    /\ rounding = Floor
    /\ call = NoCall
    /\ results = [panic |-> "none", groups |-> <<>>]
    /\ twin = 0
    /\ ncalls = 0
    /\ loop = NoLoop
    /\ sized = 0
    /\ overflow_checks \in BOOLEAN
    /\ len = 0
    /\ ratios = <<>>
    /\ sizes = <<>>

SumDivideBySize ==
    /\ ncalls = 0
    /\ \E samples \in SumIters, szs \in SumSizeVecs :
          Called("divide_by_size", samples, szs, <<>>,
                 divide_by_size(rng, stable, samples, szs))

SumDivideSliceBySize ==
    /\ ncalls = 0
    /\ \E n \in 0..MaxLen, szs \in SumSizeVecs :
          Called("divide_slice_by_size", Iter(n, Some(n)), szs, <<>>,
                 divide_slice_by_size(rng, stable, n, szs))

NextSum ==
    \/ ncalls = 0 /\ \E value \in BOOLEAN : with_stable(value)
    \/ SumDivideBySize
    \/ SumDivideSliceBySize

SpecSum == InitSum /\ [][NextSum]_vars

----------------------------------------------------------------------------
(* Claims about the divide operations (Spec) *)

BySizeOps == {"divide_by_size", "divide_slice_by_size"}
ByRatioOps == {"divide_by_ratio", "divide_slice_by_ratio"}
Returned == call.op # "none" /\ results.panic = "none"

RECURSIVE Flatten(_)
Flatten(gs) == IF gs = <<>> THEN <<>> ELSE Head(gs) \o Flatten(Tail(gs))

\* C1: a by-size call whose sizes sum to at most the input length returns
\* exactly len(sizes) groups, group i holding exactly sizes[i] elements.
C1_GroupCountAndSizes ==
    (call.op \in BySizeOps /\ SumSeq(call.sizes) <= call.samples.len) =>
        /\ results.panic = "none"
        /\ Len(results.groups) = Len(call.sizes)
        /\ \A i \in 1..Len(call.sizes) : Len(results.groups[i]) = call.sizes[i]

\* C2: every element of every group returned by a divide call is an input
\* element at a position in [0, n), and no input position occurs twice,
\* neither inside one group nor in two groups.
C2_GroupsDisjointFromInput ==
    Returned =>
        LET all == Flatten(results.groups)
        IN  /\ \A k \in 1..Len(all) : all[k] \in 0..call.samples.len - 1
            /\ \A j, k \in 1..Len(all) : j # k => all[j] # all[k]

\* a call returned two non-empty groups
C2_Witness ==
    /\ Returned /\ Len(results.groups) >= 2
    /\ Len(results.groups[1]) >= 1 /\ Len(results.groups[2]) >= 1

\* C3: with stable = true the input positions inside every returned group are
\* strictly increasing.
C3_StableGroupsIncreasing ==
    (Returned /\ call.stable) =>
        \A i \in 1..Len(results.groups) :
            \A k \in 1..Len(results.groups[i]) - 1 :
                results.groups[i][k] < results.groups[i][k + 1]

\* a stable call returned a group whose indices were not sampled in increasing order
C3_Witness ==
    /\ Returned /\ call.stable /\ call.op = "divide_slice_by_size"
    /\ Len(call.sizes) >= 1 /\ call.sizes[1] >= 2
    /\ LET idxs == sample(call.rng, call.samples.len, SumSeq(call.sizes)).idxs
       IN  idxs[1] > idxs[2]

\* C4: a by-size call whose sizes sum to more than the input length panics,
\* returns no groups and leaves the generator in the state it had before.
C4_OversubscribedFailsUntouched ==
    (call.op \in BySizeOps /\ SumSeq(call.sizes) > call.samples.len) =>
        /\ results.panic # "none"
        /\ results.groups = <<>>
        /\ rng = call.rng

\* a ratio no by-ratio call accepts, and the f64 sum of a vector of valid ratios
InvalidRatio(x) == x.kind \in {"nan", "inf"} \/ x.val < 0
RatiosTotal(rs) == f64_sum([i \in 1..Len(rs) |-> rs[i].val])

\* C5: a by-ratio call with a NaN, infinite or negative ratio, or with ratios
\* whose f64 sum exceeds 1.0, panics in its ratio checks: before sizes are
\* resolved, with no groups and with the generator untouched.
C5_InvalidRatiosFailUntouched ==
    (/\ call.op \in ByRatioOps
     /\ \/ \E i \in 1..Len(call.ratios) : InvalidRatio(call.ratios[i])
        \/ RatiosTotal(call.ratios) > Unit) =>
        /\ results.panic \in {"illegal_value", "ratios_total"}
        /\ results.groups = <<>>
        /\ rng = call.rng

\* a by-ratio call with an infinite ratio on a generator that holds entropy
C5_Witness ==
    /\ call.op \in ByRatioOps /\ call.rng.ent > 0 /\ call.samples.len > 0
    /\ \E i \in 1..Len(call.ratios) : call.ratios[i].kind = "inf"
    /\ results.panic = "illegal_value"

ZeroGroups ==
    \/ call.op \in BySizeOps /\ call.sizes = <<>>
    \/ call.op \in ByRatioOps /\ call.ratios = <<>>

\* C14: a divide call with sizes = [] or ratios = [] returns an empty group
\* list and leaves the generator in the state it had before the call, for
\* every input and both values of stable.
C14_ZeroGroupsUntouched ==
    ZeroGroups =>
        /\ results.panic = "none"
        /\ results.groups = <<>>
        /\ rng = call.rng

\* zero groups asked of a non-empty input without a size_hint upper bound, by
\* an unstable session whose generator holds entropy
C14_Witness ==
    /\ ZeroGroups /\ call.op = "divide_by_ratio" /\ ~call.stable
    /\ call.samples.len > 0 /\ ~call.samples.upper.some /\ call.rng.ent > 0
    /\ results.panic = "none"

\* the by-size operation of the last call, applied from the state before the
\* call to the same input with other sizes
SameCallWithSizes(szs) ==
    IF call.op = "divide_by_size"
    THEN divide_by_size(call.rng, call.stable, call.samples, szs)
    ELSE divide_slice_by_size(call.rng, call.stable, call.samples.len, szs)

\* C15: a by-size call with sizes [a, 0, b] ends as the same call with sizes
\* [a, b] ends, with the same generator state, and where that one returns the
\* groups X, Y it returns X, [], Y; on the slice path and on the stream path.
C15_ZeroSizeInMiddle ==
    (call.op \in BySizeOps /\ Len(call.sizes) = 3 /\ call.sizes[2] = 0) =>
        LET ab == SameCallWithSizes(<<call.sizes[1], call.sizes[3]>>)
        IN  /\ results.panic = ab.panic
            /\ rng = ab.rng
            /\ ab.panic = "none" =>
                  results.groups = <<ab.groups[1], <<>>, ab.groups[2]>>

\* an unstable stream call with sizes [2, 0, 1] whose first group came out of
\* its shuffle in descending order
C15_Witness ==
    /\ call.op = "divide_by_size" /\ ~call.stable /\ call.sizes = <<2, 0, 1>>
    /\ results.panic = "none" /\ results.groups[2] = <<>>
    /\ results.groups[1][1] > results.groups[1][2]

\* C16: a divide_slice_by_ratio call with valid ratios ends as
\* divide_slice_by_size ends on the same slice with the sizes resolved from the
\* ratios: the same groups, in the same order inside each group, and the same
\* generator state.
C16_SliceByRatioTakesSlicePath ==
    (call.op = "divide_slice_by_ratio" /\ ratio_panic(call.ratios) = "none") =>
        LET n == call.samples.len
            szs == ratios_to_sizes(call.rounding, Vals(call.ratios), n)
            by_size == divide_slice_by_size(call.rng, call.stable, n, szs)
        IN  /\ results.panic = by_size.panic
            /\ results.groups = by_size.groups
            /\ rng = by_size.rng

\* C16 for stable sessions only
C16_StableSliceByRatioAsSlicePath ==
    call.stable => C16_SliceByRatioTakesSlicePath

\* the by-size operation of the last call, applied from the state before the
\* call to the same input and sizes with another stable flag
SameCallWithStable(flag) ==
    IF call.op = "divide_by_size"
    THEN divide_by_size(call.rng, flag, call.samples, call.sizes)
    ELSE divide_slice_by_size(call.rng, flag, call.samples.len, call.sizes)

SeqRange(xs) == {xs[k] : k \in 1..Len(xs)}

\* C20: from the same generator state, input and sizes a by-size call with
\* stable = false and the call with stable = true end alike (both return or
\* both panic) and return, group by group, the same set of input positions; on
\* the slice path and on the stream path.
C20_StableChangesOrderOnly ==
    call.op \in BySizeOps =>
        LET flipped == SameCallWithStable(~call.stable)
        IN  /\ results.panic = flipped.panic
            /\ Len(results.groups) = Len(flipped.groups)
            /\ \A i \in 1..Len(results.groups) :
                  SeqRange(results.groups[i]) = SeqRange(flipped.groups[i])

\* an unstable stream call returned two groups, the first in another order
\* than the stable call returns it
C20_Witness ==
    /\ call.op = "divide_by_size" /\ ~call.stable /\ results.panic = "none"
    /\ Len(results.groups) = 2 /\ Len(results.groups[2]) >= 1
    /\ results.groups[1] # SameCallWithStable(TRUE).groups[1]

----------------------------------------------------------------------------
(* Claims about ratios_to_sizes (SpecSizes) *)

\* C6: for every valid ratio vector, every sample length and every rounding
\* policy the resolved sizes sum to at most the sample length.
C6_SizesSumWithinLen == SumSeq(sizes) <= len

Min(a, b) == IF a < b THEN a ELSE b
Quarter == f64_lit(1, 4)

\* C8: under Floor, size[i] is the floor of the f64 product ratios[i] * len and
\* is what the resolver returns for ratios[i] alone; equal ratios get equal
\* sizes; len = 10 with three ratios 1/4 gives [2, 2, 2].
C8_FloorEachRatioAlone ==
    rounding = Floor =>
        /\ Len(sizes) = Len(ratios)
        /\ \A i \in 1..Len(ratios) :
              /\ sizes[i] = f64_floor(f64_mul(ratios[i], usize_as_f64(len)))
              /\ <<sizes[i]>> = ratios_to_sizes(Floor, <<ratios[i]>>, len)
        /\ \A i, j \in 1..Len(ratios) : ratios[i] = ratios[j] => sizes[i] = sizes[j]
        /\ (len = 10 /\ ratios = <<Quarter, Quarter, Quarter>>) => sizes = <<2, 2, 2>>

C8_Witness ==
    /\ rounding = Floor /\ len = 10
    /\ ratios = <<Quarter, Quarter, Quarter>> /\ sizes = <<2, 2, 2>>

\* b[i] of C9 as stated: min(round((ratios[1] + ... + ratios[i]) * len), len)
CumulativeRatioPoint(i) ==
    Min(f64_round(f64_mul(f64_sum(SubSeq(ratios, 1, i)), usize_as_f64(len))), len)

\* C9 as stated: under Tail, size[i] = b[i] - b[i-1] with b[i] the clamped
\* rounding of the cumulative ratio sum times len, b[0] = 0.
C9_TailCumulativeRatios ==
    rounding = Tail_ =>
        /\ Len(sizes) = Len(ratios)
        /\ \A i \in 1..Len(ratios) :
              sizes[i] = CumulativeRatioPoint(i)
                         - (IF i = 1 THEN 0 ELSE CumulativeRatioPoint(i - 1))

\* b[i] of the amended C9: min(b[i-1] + round(ratios[i] * len), len), b[0] = 0
RECURSIVE RoundedSizePoint(_)
RoundedSizePoint(i) ==
    IF i = 0 THEN 0
    ELSE Min(RoundedSizePoint(i - 1)
             + f64_round(f64_mul(ratios[i], usize_as_f64(len))), len)

\* C9 (amended): under Tail, size[i] = b[i] - b[i-1] where the boundary points
\* accumulate the individually rounded sizes, b[i] = min(b[i-1] +
\* round(ratios[i] * len), len), b[0] = 0.
C9_TailCumulativeRoundedSizes ==
    rounding = Tail_ =>
        /\ Len(sizes) = Len(ratios)
        /\ \A i \in 1..Len(ratios) :
              sizes[i] = RoundedSizePoint(i) - RoundedSizePoint(i - 1)

\* a Tail resolution of two ratios where the two readings of b[i] differ
C9_Witness ==
    /\ rounding = Tail_ /\ Len(ratios) >= 2
    /\ \E i \in 1..Len(ratios) : RoundedSizePoint(i) # CumulativeRatioPoint(i)

\* C10: under Tail, size[i] = min(round(ratios[i] * len), len - (size[1] + ... +
\* size[i-1])), round taking ties away from zero; len = 10 with four ratios
\* 1/4 gives [3, 3, 3, 1].
C10_TailOwnSizeCutByRest ==
    rounding = Tail_ =>
        /\ Len(sizes) = Len(ratios)
        /\ \A i \in 1..Len(ratios) :
              sizes[i] = Min(f64_round(f64_mul(ratios[i], usize_as_f64(len))),
                             len - SumSeq(SubSeq(sizes, 1, i - 1)))
        /\ (len = 10 /\ ratios = <<Quarter, Quarter, Quarter, Quarter>>)
              => sizes = <<3, 3, 3, 1>>

C10_Witness ==
    /\ rounding = Tail_ /\ len = 10
    /\ ratios = <<Quarter, Quarter, Quarter, Quarter>> /\ sizes = <<3, 3, 3, 1>>

Third == f64_lit(1, 3)

\* b[i] of C11: round((ratios[1] + ... + ratios[i]) * len), the sum and the
\* product taken in f64 as the code takes them
EachPoint(i) ==
    IF i = 0 THEN 0
    ELSE f64_round(f64_mul(f64_sum(SubSeq(ratios, 1, i)), usize_as_f64(len)))

\* C11: under Each, size[i] = b[i] - b[i-1] with b[i] the rounding of the
\* cumulative ratio sum times len, b[0] = 0; the sizes total b[last], which is
\* exactly len when the ratios sum to 1.0; len = 10 with three ratios 1/3
\* gives [3, 4, 3].
C11_EachCumulativeRatios ==
    rounding = Each =>
        /\ Len(sizes) = Len(ratios)
        /\ \A i \in 1..Len(ratios) : sizes[i] = EachPoint(i) - EachPoint(i - 1)
        /\ SumSeq(sizes) = EachPoint(Len(ratios))
        /\ f64_sum(ratios) = Unit => SumSeq(sizes) = len
        /\ (len = 10 /\ ratios = <<Third, Third, Third>>) => sizes = <<3, 4, 3>>

\* the boundary points and the example of C11, without the clause on ratios
\* that sum to 1.0
C11_EachPointsOnly ==
    rounding = Each =>
        /\ Len(sizes) = Len(ratios)
        /\ \A i \in 1..Len(ratios) : sizes[i] = EachPoint(i) - EachPoint(i - 1)
        /\ SumSeq(sizes) = EachPoint(Len(ratios))
        /\ (len = 10 /\ ratios = <<Third, Third, Third>>) => sizes = <<3, 4, 3>>

EqualRatios == \A i, j \in 1..Len(ratios) : ratios[i] = ratios[j]
Max(a, b) == IF a > b THEN a ELSE b

----------------------------------------------------------------------------
(* Claims about sequences of calls (SpecSeq) *)

CalledOnSlice == call.samples = Iter(call.samples.len, Some(call.samples.len))

\* C19: at every call of a sequence, a stable by-size call on a slice ends the
\* same on the slice path and on the stream path: from the generator state the
\* calls before have left, divide_slice_by_size and divide_by_size return the
\* same groups (or panic alike) and leave the same generator state, so two
\* sessions that differ only in the path stay in step call after call.
C19_StableSliceAsStream ==
    (call.op \in BySizeOps /\ call.stable /\ CalledOnSlice) =>
        LET n == call.samples.len
            slice == divide_slice_by_size(call.rng, TRUE, n, call.sizes)
            stream == divide_by_size(call.rng, TRUE, Iter(n, Some(n)), call.sizes)
        IN  /\ slice = stream
            /\ results = [panic |-> slice.panic, groups |-> slice.groups]
            /\ rng = slice.rng

\* the second call of a session, stable and on the slice path, on a generator
\* the first call has drawn from, whose sample of the first group is not in
\* ascending order
C19_Witness ==
    /\ ncalls = 2 /\ call.op = "divide_slice_by_size" /\ call.stable
    /\ call.rng.draws > 0 /\ call.sizes = <<2, 1>> /\ results.panic = "none"
    /\ LET idxs == sample(call.rng, call.samples.len, 3).idxs
       IN  idxs[1] > idxs[2]

----------------------------------------------------------------------------
(* Claims about the loop of divide_by_size (SpecWalk) *)

\* the call taken in steps ends as the call taken at once
WalkEndsAsDivideBySize ==
    loop.pc \in {"done", "panic"} =>
        LET out == divide_by_size(call.rng, call.stable, call.samples, call.sizes)
        IN  results = [panic |-> out.panic, groups |-> out.groups] /\ rng = out.rng

\* every element placed in a group so far is a key of the table, in the group
\* the table gives it, and is no longer to be visited
PlacedByTable ==
    loop.pc \in {"walk", "done"} =>
        \A g \in 1..Len(loop.results) : \A k \in 1..Len(loop.results[g]) :
            LET e == loop.results[g][k]
            IN  e \in DOMAIN loop.table /\ loop.table[e] = g - 1 /\ e \notin loop.todo

\* one iteration of the loop that pushed: the table entry idx -> g it visited
\* had the least key left, the positions it read are those from the first
\* unread one up to idx, and what it pushed into group g is the element at idx
PushedAtIdx ==
    (loop.pc = "walk" /\ loop'.pc = "walk" /\ loop'.todo # loop.todo) =>
        LET idx == SetMin(loop.todo)
            g == loop.table[idx] + 1
        IN  /\ loop'.todo = loop.todo \ {idx}
            /\ idx > loop.prev_idx /\ loop'.prev_idx = idx
            /\ idx >= Taken(loop.samples_iter)
            /\ Taken(loop'.samples_iter) = idx + 1
            /\ loop'.results = [loop.results EXCEPT ![g] = Append(@, idx)]

\* C17: in divide_by_size the input is read forward only, no position twice:
\* the number of elements taken from samples_iter never decreases, every
\* iteration that pushes reads the unread positions up to idx and pushes the
\* element at idx into the group of the table entry idx -> g, starting from
\* prev_idx = -1; no element at a position outside the table is in any group.
C17_SingleForwardPass ==
    /\ [](PlacedByTable /\ (loop.pc = "idle" => loop.prev_idx = -1))
    /\ [][/\ loop.pc = "walk" => Taken(loop'.samples_iter) >= Taken(loop.samples_iter)
          /\ loop'.pc = "walk" /\ loop.pc = "idle" =>
                loop'.prev_idx = -1 /\ Taken(loop'.samples_iter) = 0
          /\ PushedAtIdx]_vars

\* the loop has visited the table 0 -> g, 2 -> h of two groups: it read
\* position 1 and placed it nowhere
C17_Witness ==
    /\ loop.pc = "walk" /\ loop.todo = {} /\ DOMAIN loop.table = {0, 2}
    /\ loop.table[0] # loop.table[2] /\ Taken(loop.samples_iter) = 3
    /\ Len(loop.results) = 2

\* C21: in divide_by_size, when the sum of the sizes is at most the size_hint
\* upper bound of the input, every key of the table (every sampled index) is
\* below the number of elements the input yields, and no iteration of the walk
\* finds nth(..) = None: the call does not panic in unwrap.
C21_WalkStaysInsideInput ==
    /\ loop.pc = "walk" => \A idx \in DOMAIN loop.table : idx < call.samples.len
    /\ call.op = "divide_by_size" => results.panic # "unwrap_none"

\* C21 for inputs whose size_hint upper bound is their length, or that report none
C21_ExactHintWalkStaysInside ==
    (call.op = "divide_by_size"
     /\ (call.samples.upper.some => call.samples.upper.val = call.samples.len)) =>
        C21_WalkStaysInsideInput

----------------------------------------------------------------------------
(* Claims about the sum of sizes (SpecSum) *)

\* the panics of a by-size call raised before its sample() call
PanicsBeforeSample == {"add_overflow", "sizes_total"}

\* C22: a by-size call whose sizes have a mathematical sum above the input
\* length fails before sampling: it panics ahead of the sample() call and the
\* generator is in the state it had before the call, also when the machine
\* sum of the sizes wraps around.
C22_OversubscribedFailsBeforeSampling ==
    (call.op \in BySizeOps /\ SumSeq(call.sizes) > call.samples.len) =>
        /\ results.panic \in PanicsBeforeSample
        /\ rng = call.rng

\* C22 in a build with overflow checks, and in any build for sizes whose
\* machine sum does not wrap
C22_CheckedSumFailsBeforeSampling ==
    (overflow_checks \/ ~usize_sum(call.sizes).overflow) =>
        C22_OversubscribedFailsBeforeSampling

\* a by-size call whose sizes sum to more than the input length returns no
\* groups in any build
C22_OversubscribedNeverReturns ==
    (call.op \in BySizeOps /\ SumSeq(call.sizes) > call.samples.len) =>
        results.panic # "none" /\ results.groups = <<>>

----------------------------------------------------------------------------
(* Claims about SizedIter (SpecIter) *)

\* C18: a SizedIter reports an upper bound in size_hint and yields the elements
\* of the iterator it was built over, in their order, all of them when it has
\* ended; built over an iterator that reports an upper bound it holds that
\* iterator, no buffer, and has taken from it exactly the elements it yielded
\* (none at construction); built over one that reports none it holds a buffer
\* of all the elements, the iterator was read to its end at construction, and
\* what it yielded is the buffer up to its position.
C18_SizedIterPassThroughOrBuffer ==
    LET src == sized.src
        it == sized.it
        k == Len(sized.yielded)
    IN  /\ size_hint_upper(it).some
        /\ sized.yielded = [i \in 1..k |-> i - 1]
        /\ k <= src.len
        /\ sized.ended => k = src.len
        /\ src.upper.some =>
              /\ it.src_iter.some /\ ~it.vec_iter.some /\ ~it.collected.some
              /\ it.src_iter.val.taken = k
        /\ ~src.upper.some =>
              /\ ~it.src_iter.some /\ it.vec_iter.some
              /\ it.collected.some /\ it.collected.val.taken = src.len
              /\ it.vec_iter.val.buf = [i \in 1..src.len |-> i - 1]
              /\ it.vec_iter.val.pos = k

\* a SizedIter over an iterator of three elements without an upper bound has
\* been read to its end
C18_Witness ==
    /\ ~sized.src.upper.some /\ sized.src.len = 3
    /\ sized.ended /\ sized.yielded = <<0, 1, 2>>

====
